---- MODULE Spec2Model ----
(***************************************************************************)
(* Model of the messaging backend: the two Cassandra tables created by     *)
(* scripts/setup_db.py, the write path MessageModel.create_message (three  *)
(* awaited INSERTs), the controller MessageController.send_message, and    *)
(* the read paths of MessageModel / ConversationModel.                     *)
(*                                                                         *)
(* Encoding of values:                                                     *)
(*   - a Python str is a sequence of character codes (ASCII);              *)
(*   - a name-based UUID (uuid.uuid5) is represented by the name it is     *)
(*     hashed from: uuid5 is a deterministic function of the name, and is  *)
(*     taken to be collision free;                                         *)
(*   - a random UUID (uuid.uuid4) is a fresh natural number;               *)
(*   - a user id is a Python int (1..NUM_USERS, as the generator and the   *)
(*     controllers use) or a uuid.UUID, represented by a number above      *)
(*     every int id (UserUUIDs); str() of a UUID is represented by the     *)
(*     digits of that number;                                              *)
(*   - a timestamp is a natural number of store ticks (the resolution of   *)
(*     the TIMESTAMP column);                                              *)
(*   - Python's None is NoneUser / NoneUUID / NoneText, one per type.      *)
(***************************************************************************)
EXTENDS Integers, Sequences, FiniteSets, TLC

VARIABLES
    messages_by_conversation,   \* set of rows of the table
    conversations_by_user,      \* set of rows of the table
    requests,                   \* request slot -> state of that create_message call
    now,                        \* the server clock read by datetime.utcnow()
    lastRead                    \* the result of the latest read operation

vars == <<messages_by_conversation, conversations_by_user, requests, now, lastRead>>

(***************************************************************************)
(* Bounds                                                                  *)
(***************************************************************************)
MaxSends == 2

MaxTime == 2

MaxLimit == 2

MaxPage == 2

MaxIdLen == 3

(***************************************************************************)
(* Values                                                                  *)
(***************************************************************************)
\* user ids that are uuid.UUID values, the type of the user columns
UserUUIDs == {101, 102, 103}

\* user ids that are Python ints, as generate_users numbers them
IntUsers == {1, 2}

Users == UserUUIDs \cup IntUsers

\* the value has the CQL type UUID
IsUUID(value) == value \in UserUUIDs

\* the (sender, recipient) pairs of the calls: both directions of one
\* conversation, a second conversation of the first user, a send to oneself,
\* and a pair of int ids
Pairs == {<<101, 102>>, <<102, 101>>, <<101, 103>>, <<102, 102>>, <<1, 2>>}

\* NUM_USERS of the test-data generator: user ids are 1..NUM_USERS
NUM_USERS == 10

UserIds == 1..NUM_USERS

Hello == <<104, 101, 108, 108, 111>>

Hi == <<104, 105>>

\* content[:50]: the length of a preview in the test-data generator
PreviewLength == 50

\* a content one unit longer than a preview: "a" repeated
LongText == [i \in 1..(PreviewLength + 1) |-> 97]

Contents == {Hello, Hi, LongText}

\* content[:50]
Truncate(content) ==
    SubSeq(content, 1, IF Len(content) < PreviewLength THEN Len(content)
                       ELSE PreviewLength)

NoneUser == 0

NoneUUID == <<>>

NoneText == <<0>>

Slots == 1..MaxSends

Times == 1..MaxTime

(***************************************************************************)
(* Strings                                                                 *)
(***************************************************************************)
RECURSIVE Str(_)
\* str(n) of a non-negative int: its decimal digits
Str(n) == IF n < 10 THEN <<48 + n>> ELSE Str(n \div 10) \o <<48 + (n % 10)>>

\* str(None)
NoneStr == <<78, 111, 110, 101>>

\* Python's < on str: lexicographic comparison by code point
StrLess(a, b) ==
    \/ Len(a) < Len(b) /\ \A i \in 1..Len(a) : a[i] = b[i]
    \/ \E i \in 1..Len(a) :
          /\ i <= Len(b)
          /\ a[i] < b[i]
          /\ \A j \in 1..(i - 1) : a[j] = b[j]

\* the two ids left in argument order
UnsortedStrs(a, b) == <<a, b>>

\* sorted([a, b]) of two str (stable)
SortedStrs(a, b) == IF StrLess(b, a) THEN <<b, a>> ELSE <<a, b>>

\* f"{x}-{y}"
Dash(x, y) == x \o <<45>> \o y

\* uuid.uuid5(uuid.NAMESPACE_DNS, name), represented by its name
Uuid5(name) == name

\* the name hashed at lines 184-185, for two ids already converted by str()
ConversationKey(a, b) ==
    LET sorted_ids == SortedStrs(a, b)
    IN  Dash(sorted_ids[1], sorted_ids[2])

\* lines 184-185 of create_or_get_conversation
DeriveConversationId(user1_id, user2_id) ==
    Uuid5(ConversationKey(Str(user1_id), Str(user2_id)))

\* sorted([a, b]) of two int
SortedInts(a, b) == IF b < a THEN <<b, a>> ELSE <<a, b>>

\* lines 54-55 of generate_conversations: the ids are sorted as integers and
\* formatted afterwards
GeneratorConversationId(user1_id, user2_id) ==
    LET user_ids == SortedInts(user1_id, user2_id)
    IN  Uuid5(Dash(Str(user_ids[1]), Str(user_ids[2])))

\* the conversation ids callers pass to create_message
ConvIds == {DeriveConversationId(101, 102), DeriveConversationId(101, 103)}

(***************************************************************************)
(* Tables (scripts/setup_db.py)                                            *)
(***************************************************************************)
\* PRIMARY KEY ((conversation_id), message_timestamp)
MessageKey(row) == <<row.conversation_id, row.message_timestamp>>

\* an index keyed by (user, conversation), written unconditionally
IndexKeyByConversation(row) == <<row.user_id, row.conversation_id>>

\* PRIMARY KEY ((user_id), last_message_timestamp)
IndexKey(row) == <<row.user_id, row.last_message_timestamp>>

\* INSERT is an upsert on the primary key
InsertMessage(table, row) ==
    {old \in table : MessageKey(old) # MessageKey(row)} \cup {row}

InsertIndex(table, row) ==
    {old \in table : IndexKey(old) # IndexKey(row)} \cup {row}

\* a column of type UUID takes a UUID or, outside the primary key, null; an
\* int constant is rejected
UUIDColumnValid(value) == value = NoneUser \/ IsUUID(value)

\* a primary key column bound to null is rejected by the store, and so is a
\* value that is not of the column's type (sender_id UUID, recipient_id UUID)
MessageRowValid(row) ==
    /\ row.conversation_id # NoneUUID
    /\ UUIDColumnValid(row.sender_id)
    /\ UUIDColumnValid(row.recipient_id)

\* user_id UUID (partition key), participant_id UUID
IndexRowValid(row) ==
    /\ row.user_id # NoneUser
    /\ IsUUID(row.user_id)
    /\ UUIDColumnValid(row.participant_id)

(***************************************************************************)
(* MessageModel.create_message                                             *)
(***************************************************************************)
\* kwargs.get(key): the value passed under that name, else None
GetUUID(kwargs, key) == IF key \in DOMAIN kwargs THEN kwargs[key] ELSE NoneUUID

GetUser(kwargs, key) == IF key \in DOMAIN kwargs THEN kwargs[key] ELSE NoneUser

GetText(kwargs, key) == IF key \in DOMAIN kwargs THEN kwargs[key] ELSE NoneText

Idle == [pc |-> "idle"]

\* lines 32-38: the locals of a call
Call(via, kwargs, message_id, timestamp) ==
    [pc |-> "started", via |-> via, kwargs |-> kwargs,
     conversation_id |-> GetUUID(kwargs, "conversation_id"),
     sender_id |-> GetUser(kwargs, "sender_id"),
     recipient_id |-> GetUser(kwargs, "recipient_id"),
     context |-> GetText(kwargs, "context"),
     message_id |-> message_id, timestamp |-> timestamp,
     writes |-> 0, error |-> "none", late |-> FALSE, follows |-> {}]

\* line 51: the row of the first INSERT
MessageRow(c) ==
    [conversation_id |-> c.conversation_id, message_timestamp |-> c.timestamp,
     message_id |-> c.message_id, sender_id |-> c.sender_id,
     recipient_id |-> c.recipient_id, context |-> c.context]

\* line 52: the row of the second INSERT
SenderIndexRow(c) ==
    [user_id |-> c.sender_id, conversation_id |-> c.conversation_id,
     last_message_timestamp |-> c.timestamp, participant_id |-> c.recipient_id,
     last_message_preview |-> c.context]

\* the recipient's row naming the recipient as the other participant
RecipientIndexRowOfSelf(c) ==
    [user_id |-> c.recipient_id, conversation_id |-> c.conversation_id,
     last_message_timestamp |-> c.timestamp, participant_id |-> c.recipient_id,
     last_message_preview |-> c.context]

\* line 53: the row of the third INSERT
RecipientIndexRow(c) ==
    [user_id |-> c.recipient_id, conversation_id |-> c.conversation_id,
     last_message_timestamp |-> c.timestamp, participant_id |-> c.sender_id,
     last_message_preview |-> c.context]

Raise(c, e) == [c EXCEPT !.pc = "raised", !.error = e]

\* the slot a new call takes: slots are used in order
NextSlot(r) == requests[r].pc = "idle" /\ \A q \in 1..(r - 1) : requests[q].pc # "idle"

\* a call starts: uuid4() is fresh, utcnow() reads the clock, which never
\* runs backwards; history: follows records the calls that had ended by then
Begin(r, via, kwargs) ==
    /\ \E t \in now..MaxTime :
          /\ now' = t
          /\ requests' = [requests EXCEPT ![r] =
                              [Call(via, kwargs, r, t) EXCEPT !.follows =
                                   {q \in Slots :
                                        requests[q].pc \in {"returned", "raised"}}]]
    /\ UNCHANGED <<messages_by_conversation, conversations_by_user, lastRead>>

\* MessageModel.create_message(conversation_id=, sender_id=, recipient_id=, context=)
create_message(r) ==
    /\ NextSlot(r)
    /\ \E cid \in ConvIds, p \in Pairs, ctx \in Contents :
          Begin(r, "model", [conversation_id |-> cid, sender_id |-> p[1],
                             recipient_id |-> p[2], context |-> ctx])

\* MessageController.send_message: lines 28-32 pass sender_id, receiver_id, content
send_message(r) ==
    /\ NextSlot(r)
    /\ \E p \in Pairs, content \in Contents :
          Begin(r, "controller", [sender_id |-> p[1], receiver_id |-> p[2],
                                  content |-> content])

\* history: the index write of this row lands after the index write of a
\* later message of the same conversation for the same user
Overtaken(row) ==
    \E old \in conversations_by_user :
        /\ old.user_id = row.user_id
        /\ old.conversation_id = row.conversation_id
        /\ old.last_message_timestamp > row.last_message_timestamp

\* the call moves on to its index writes without its message row stored
WriteMessageSkipped(r) ==
    LET c == requests[r] IN
    /\ c.pc = "started"
    /\ requests' = [requests EXCEPT ![r] =
                       [c EXCEPT !.pc = "message_written", !.writes = 1]]
    /\ UNCHANGED <<messages_by_conversation, conversations_by_user, now, lastRead>>

\* line 51
WriteMessage(r) ==
    LET c == requests[r] IN
    /\ c.pc = "started"
    /\ IF MessageRowValid(MessageRow(c))
       THEN /\ messages_by_conversation' =
                   InsertMessage(messages_by_conversation, MessageRow(c))
            /\ requests' = [requests EXCEPT ![r] =
                               [c EXCEPT !.pc = "message_written", !.writes = 1]]
       ELSE /\ requests' = [requests EXCEPT ![r] = Raise(c, "InvalidRequest")]
            /\ UNCHANGED messages_by_conversation
    /\ UNCHANGED <<conversations_by_user, now, lastRead>>

\* line 52
WriteSenderIndex(r) ==
    LET c == requests[r] IN
    /\ c.pc = "message_written"
    /\ IF IndexRowValid(SenderIndexRow(c))
       THEN /\ conversations_by_user' =
                   InsertIndex(conversations_by_user, SenderIndexRow(c))
            /\ requests' = [requests EXCEPT ![r] =
                               [c EXCEPT !.pc = "sender_indexed", !.writes = 2,
                                         !.late = Overtaken(SenderIndexRow(c))]]
       ELSE /\ requests' = [requests EXCEPT ![r] = Raise(c, "InvalidRequest")]
            /\ UNCHANGED conversations_by_user
    /\ UNCHANGED <<messages_by_conversation, now, lastRead>>

\* line 53, then the return of lines 55-63
WriteRecipientIndex(r) ==
    LET c == requests[r] IN
    /\ c.pc = "sender_indexed"
    /\ IF IndexRowValid(RecipientIndexRow(c))
       THEN /\ conversations_by_user' =
                   InsertIndex(conversations_by_user, RecipientIndexRow(c))
            /\ requests' = [requests EXCEPT ![r] =
                               [c EXCEPT !.pc = "returned", !.writes = 3,
                                         !.late = c.late \/ Overtaken(RecipientIndexRow(c))]]
       ELSE /\ requests' = [requests EXCEPT ![r] = Raise(c, "InvalidRequest")]
            /\ UNCHANGED conversations_by_user
    /\ UNCHANGED <<messages_by_conversation, now, lastRead>>

\* an awaited session.execute raises because the backend is unavailable
ExecuteFails(r) ==
    LET c == requests[r] IN
    /\ c.pc \in {"started", "message_written", "sender_indexed"}
    /\ requests' = [requests EXCEPT ![r] = Raise(c, "Unavailable")]
    /\ UNCHANGED <<messages_by_conversation, conversations_by_user, now, lastRead>>

(***************************************************************************)
(* What a call reports                                                     *)
(***************************************************************************)
\* str() of a user id that may be None
StrOfUser(user_id) == IF user_id = NoneUser THEN NoneStr ELSE Str(user_id)

\* lines 55-63: the dict create_message returns
Result(c) ==
    [id |-> c.message_id, sender_id |-> StrOfUser(c.sender_id),
     recipient_id |-> StrOfUser(c.recipient_id), conversation_id |-> c.conversation_id,
     timestamp |-> c.timestamp, context |-> c.context, message_id |-> c.message_id]

\* the keys send_message reads from that dict (lines 35-40)
ResponseKeys ==
    {"message_id", "sender_id", "receiver_id", "content", "created_at", "conversation_id"}

\* lines 34-41: result[key] raises KeyError for a key the dict lacks
MessageResponse(result) ==
    IF ResponseKeys \subseteq DOMAIN result
    THEN [status |-> 200, id |-> result["message_id"], sender_id |-> result["sender_id"],
          receiver_id |-> result["receiver_id"], content |-> result["content"],
          created_at |-> result["created_at"],
          conversation_id |-> result["conversation_id"]]
    ELSE [status |-> 500, detail |-> <<"Message creation failed", "KeyError">>]

\* lines 43-47: every exception becomes the same HTTP 500, its text in the detail
HTTPException(e) == [status |-> 500, detail |-> <<"Message creation failed", e>>]

\* what the caller of a finished call sees: create_message returns its dict
\* or raises the error of the failed execute; send_message maps either to a
\* response
Outcome(c) ==
    IF c.via = "model"
    THEN IF c.pc = "returned"
         THEN [raised |-> FALSE, value |-> Result(c)]
         ELSE [raised |-> TRUE, error |-> c.error]
    ELSE IF c.pc = "returned"
         THEN MessageResponse(Result(c))
         ELSE HTTPException(c.error)

Finished(c) == c.pc \in {"returned", "raised"}

Succeeded(c) ==
    /\ c.pc = "returned"
    /\ IF c.via = "model" THEN TRUE ELSE MessageResponse(Result(c)).status = 200

(***************************************************************************)
(* Reads                                                                   *)
(***************************************************************************)
\* WHERE conversation_id = %s
MessagePartition(table, conversation_id) ==
    {row \in table : row.conversation_id = conversation_id}

RECURSIVE MessagesInOrder(_)
\* CLUSTERING ORDER BY (message_timestamp DESC): the rows of a partition,
\* newest first (the clustering key is unique within a partition)
MessagesInOrder(rows) ==
    IF rows = {} THEN <<>>
    ELSE LET first == CHOOSE row \in rows :
                         \A other \in rows :
                             other.message_timestamp <= row.message_timestamp
         IN  <<first>> \o MessagesInOrder(rows \ {first})

\* LIMIT %s
Limit(rows, limit) == SubSeq(rows, 1, IF Len(rows) < limit THEN Len(rows) ELSE limit)

\* the filter taken as "at or before"
get_messages_until_timestamp(table, conversation_id, before_timestamp, limit) ==
    Limit(MessagesInOrder({row \in MessagePartition(table, conversation_id) :
                              row.message_timestamp <= before_timestamp}),
          limit)

\* MessageModel.get_messages_before_timestamp
get_messages_before_timestamp(table, conversation_id, before_timestamp, limit) ==
    Limit(MessagesInOrder({row \in MessagePartition(table, conversation_id) :
                              row.message_timestamp < before_timestamp}),
          limit)

\* limit = kwargs.get("limit", 20)
DefaultLimit == 20

GetLimit(kwargs) == IF "limit" \in DOMAIN kwargs THEN kwargs.limit ELSE DefaultLimit

\* the page numbers callers pass
PageNumbers == 1..MaxPage

\* the page taken as an offset of (page - 1) * limit rows
get_conversation_messages_offset(table, kwargs) ==
    LET rows == MessagesInOrder(MessagePartition(table, kwargs.conversation_id))
        skip == (kwargs.page - 1) * GetLimit(kwargs)
    IN  Limit(SubSeq(rows, skip + 1, Len(rows)), GetLimit(kwargs))

\* MessageModel.get_conversation_messages(**kwargs): the keywords it reads
\* are conversation_id and limit
get_conversation_messages(table, kwargs) ==
    Limit(MessagesInOrder(MessagePartition(table, kwargs.conversation_id)),
          GetLimit(kwargs))

\* MessageModel.get_messages_before_timestamp(**kwargs): the keywords it
\* reads are conversation_id, before_timestamp and limit
messages_before_timestamp(table, kwargs) ==
    get_messages_before_timestamp(table, kwargs.conversation_id,
                                  kwargs.before_timestamp, GetLimit(kwargs))

\* lines 125-135 and 73-83 of the controller: msg[key] for each key of a
\* MessageResponse, for each row, then the page; any exception becomes a 500
PaginatedMessageResponse(messages, page, limit, failure) ==
    IF \A i \in 1..Len(messages) : ResponseKeys \subseteq DOMAIN messages[i]
    THEN [status |-> 200, total |-> Len(messages), page |-> page, limit |-> limit,
          data |-> [i \in 1..Len(messages) |-> MessageResponse(messages[i])]]
    ELSE [status |-> 500, detail |-> <<failure, "KeyError">>]

\* MessageController.get_conversation_messages
MessageController_get_conversation_messages(table, conversation_id, page, limit) ==
    PaginatedMessageResponse(
        get_conversation_messages(table, [conversation_id |-> conversation_id,
                                          page |-> page, limit |-> limit]),
        page, limit, "Failed to retrieve conversation messages")

\* MessageController.get_messages_before_timestamp
MessageController_get_messages_before_timestamp(table, conversation_id, before_timestamp, page, limit) ==
    PaginatedMessageResponse(
        messages_before_timestamp(table, [conversation_id |-> conversation_id,
                                          before_timestamp |-> before_timestamp,
                                          page |-> page, limit |-> limit]),
        page, limit, "Failed to retrieve messages before timestamp")

\* ConversationModel.get_conversation(**kwargs): the keywords it reads are
\* conversation_id and limit; the rows of the message partition, up to limit
get_conversation(table, kwargs) ==
    Limit(MessagesInOrder(MessagePartition(table, kwargs.conversation_id)),
          GetLimit(kwargs))

\* how a call of get_conversation ends: line 171 returns the rows, and no
\* line of the function raises
get_conversation_call(table, kwargs) ==
    [raised |-> "none", value |-> get_conversation(table, kwargs)]

\* WHERE user_id = %s
IndexPartition(table, user_id) == {row \in table : row.user_id = user_id}

RECURSIVE IndexInOrder(_)
\* CLUSTERING ORDER BY (last_message_timestamp DESC)
IndexInOrder(rows) ==
    IF rows = {} THEN <<>>
    ELSE LET first == CHOOSE row \in rows :
                         \A other \in rows :
                             other.last_message_timestamp <= row.last_message_timestamp
         IN  <<first>> \o IndexInOrder(rows \ {first})

\* before_timestamp = None
NoneTime == 0

\* ConversationModel.get_user_conversations
get_user_conversations(table, user_id, limit, before_timestamp) ==
    IF before_timestamp # NoneTime
    THEN Limit(IndexInOrder({row \in IndexPartition(table, user_id) :
                                row.last_message_timestamp < before_timestamp}),
               limit)
    ELSE Limit(IndexInOrder(IndexPartition(table, user_id)), limit)

\* the lookup taken as never finding a row
create_or_get_conversation_never_found(table, user1_id, user2_id) ==
    [new |-> TRUE, conversation_id |-> DeriveConversationId(user1_id, user2_id)]

\* ConversationModel.create_or_get_conversation
create_or_get_conversation_result(table, user1_id, user2_id) ==
    LET conversation_id == DeriveConversationId(user1_id, user2_id)
        rows == Limit(MessagesInOrder(MessagePartition(table, conversation_id)), 1)
    IN  IF rows # <<>>
        THEN [new |-> FALSE, conversation_id |-> conversation_id]
        ELSE [new |-> TRUE, conversation_id |-> conversation_id]

create_or_get_conversation(user1_id, user2_id) ==
    /\ lastRead' = [op |-> "create_or_get_conversation",
                    user1_id |-> user1_id, user2_id |-> user2_id,
                    result |-> create_or_get_conversation_result(
                                   messages_by_conversation, user1_id, user2_id)]
    /\ UNCHANGED <<messages_by_conversation, conversations_by_user, requests, now>>

(***************************************************************************)
(* Specification                                                           *)
(***************************************************************************)
Init ==
    /\ messages_by_conversation = {}
    /\ conversations_by_user = {}
    /\ requests = [r \in Slots |-> Idle]
    /\ now = 1
    /\ lastRead = [op |-> "none"]

Next ==
    \E r \in Slots :
        \/ create_message(r)
        \/ send_message(r)
        \/ WriteMessage(r)
        \/ WriteSenderIndex(r)
        \/ WriteRecipientIndex(r)
        \/ ExecuteFails(r)

Spec == Init /\ [][Next]_vars

\* the conversation identity on its own: every pair of generator user ids
NextIdentity ==
    \E user1_id \in UserIds, user2_id \in UserIds :
        create_or_get_conversation(user1_id, user2_id)

SpecIdentity == Init /\ [][NextIdentity]_vars

\* user ids that are str: the non-empty strings over "a", "b" and "-"
IdAlphabet == {97, 98, 45}

StringIds == UNION {[1..n -> IdAlphabet] : n \in 1..MaxIdLen}

\* create_or_get_conversation(user1_id=, user2_id=) with two str ids:
\* str() of a str is the str itself
create_or_get_conversation_of_strs(user1_id, user2_id) ==
    LET conversation_id == Uuid5(ConversationKey(user1_id, user2_id)) IN
    /\ lastRead' = [op |-> "create_or_get_conversation",
                    user1_id |-> user1_id, user2_id |-> user2_id,
                    result |-> [new |-> MessagePartition(messages_by_conversation,
                                                         conversation_id) = {},
                                conversation_id |-> conversation_id]]
    /\ UNCHANGED <<messages_by_conversation, conversations_by_user, requests, now>>

NextKey ==
    \E user1_id \in StringIds, user2_id \in StringIds :
        create_or_get_conversation_of_strs(user1_id, user2_id)

SpecKey == Init /\ [][NextKey]_vars

\* the pairs looked up between sends: one pair, in both orders
LookupPairs == {<<101, 102>>, <<102, 101>>}

\* sends, and lookups of a conversation between them
NextLookup ==
    \/ Next
    \/ \E p \in LookupPairs : create_or_get_conversation(p[1], p[2])

SpecLookup == Init /\ [][NextLookup]_vars

(***************************************************************************)
(* Properties                                                              *)
(***************************************************************************)
Started(r) == requests[r].pc # "idle"

\* the message INSERT of call r succeeded
Appended(r) == Started(r) /\ requests[r].writes >= 1

AppendedTo(conversation_id) ==
    {r \in Slots : Appended(r) /\ requests[r].conversation_id = conversation_id}

\* the receiver a call was given, under either keyword
ReceiverOf(kwargs) ==
    IF "recipient_id" \in DOMAIN kwargs THEN kwargs.recipient_id ELSE kwargs.receiver_id

\* the request is one the design admits: two distinct participants, and a
\* conversation id (when the caller supplies one) derived from them
ValidRequest(c) ==
    /\ c.kwargs.sender_id # ReceiverOf(c.kwargs)
    /\ "conversation_id" \in DOMAIN c.kwargs =>
           c.kwargs.conversation_id =
               DeriveConversationId(c.kwargs.sender_id, ReceiverOf(c.kwargs))

AllValid == \A r \in Slots : Started(r) => ValidRequest(requests[r])

\* every started call has completed its three writes
AllCompleted == \A r \in Slots : requests[r].pc \in {"idle", "returned"}

\* the conversation ids that occur in the message table
StoredConversations == {row.conversation_id : row \in messages_by_conversation}

\* the users that sent or received a stored message of the conversation
Participants(conversation_id) ==
    UNION {{row.sender_id, row.recipient_id} :
              row \in MessagePartition(messages_by_conversation, conversation_id)}

\* the most recent stored message of a conversation
LatestMessage(conversation_id) ==
    MessagesInOrder(MessagePartition(messages_by_conversation, conversation_id))[1]

\* the entries of a conversation among those get_user_conversations returns
EntriesOf(table, user_id, conversation_id) ==
    SelectSeq(get_user_conversations(table, user_id, DefaultLimit, NoneTime),
              LAMBDA row : row.conversation_id = conversation_id)

\* a bound above every timestamp, for the first page
FirstCursor == MaxTime + 1

RECURSIVE Pages(_, _, _, _)
\* the pages of get_messages_before_timestamp concatenated, each call bounded
\* by the timestamp of the oldest message of the page before
Pages(table, conversation_id, before_timestamp, limit) ==
    LET page == get_messages_before_timestamp(table, conversation_id,
                                              before_timestamp, limit)
    IN  IF page = <<>> THEN <<>>
        ELSE page \o Pages(table, conversation_id,
                           page[Len(page)].message_timestamp, limit)

\* C1: for every conversation and every page size, the concatenated pages of
\* get_messages_before_timestamp are exactly the messages appended to the
\* conversation, each once, newest first.
C1_PaginationComplete ==
    \A conversation_id \in ConvIds, limit \in 1..MaxLimit :
        LET all == Pages(messages_by_conversation, conversation_id, FirstCursor, limit)
        IN  /\ {all[i].message_id : i \in 1..Len(all)} =
                   {requests[r].message_id : r \in AppendedTo(conversation_id)}
            /\ Len(all) = Cardinality(AppendedTo(conversation_id))
            /\ \A i \in 1..Len(all), j \in 1..Len(all) :
                   i < j => all[i].message_timestamp >= all[j].message_timestamp

\* C2: every message row written by create_message stays stored unchanged,
\* and a conversation partition holds as many rows as message writes
\* succeeded for it.
C2_MessagesNeverOverwritten ==
    /\ \A r \in Slots :
           Appended(r) => MessageRow(requests[r]) \in messages_by_conversation
    /\ \A conversation_id \in ConvIds :
           Cardinality(MessagePartition(messages_by_conversation, conversation_id))
               = Cardinality(AppendedTo(conversation_id))

\* C3: once the sends (all between distinct users, in their derived
\* conversation) have completed, conversations_by_user holds exactly one
\* row per participant of every conversation that has a message, and no
\* other row.
C3_OneIndexRowPerPair ==
    (AllCompleted /\ AllValid) =>
        /\ \A conversation_id \in StoredConversations :
               \A user_id \in Participants(conversation_id) :
                   Cardinality({row \in conversations_by_user :
                                   /\ row.user_id = user_id
                                   /\ row.conversation_id = conversation_id}) = 1
        /\ \A row \in conversations_by_user :
               row.user_id \in Participants(row.conversation_id)

\* C4: once the sends (all between distinct users, in their derived
\* conversation) have completed, the entry get_user_conversations
\* returns to a participant for a conversation carries the timestamp and
\* the preview of the most recent stored message of that conversation.
C4_IndexShowsLatestMessage ==
    (AllCompleted /\ AllValid) =>
        \A conversation_id \in StoredConversations :
            \A user_id \in Participants(conversation_id) :
                LET entries == EntriesOf(conversations_by_user, user_id, conversation_id)
                    latest == LatestMessage(conversation_id)
                IN  /\ entries # <<>>
                    /\ entries[1].last_message_timestamp = latest.message_timestamp
                    /\ entries[1].last_message_preview = latest.context

\* the step is the index INSERT of row by call r
IndexWriteStep(r, row) ==
    \/ /\ requests[r].pc = "message_written"
       /\ requests'[r].pc = "sender_indexed"
       /\ row = SenderIndexRow(requests[r])
    \/ /\ requests[r].pc = "sender_indexed"
       /\ requests'[r].pc = "returned"
       /\ row = RecipientIndexRow(requests[r])

IndexRowsOf(table, user_id, conversation_id) ==
    {row \in table : row.user_id = user_id /\ row.conversation_id = conversation_id}

\* the index write of row leaves the newest entry of its (user, conversation)
\* in place when that entry is of a later message, and replaces no entry of
\* that (user, conversation) that is newer than the row
NoRegression(row) ==
    LET before == IndexRowsOf(conversations_by_user, row.user_id, row.conversation_id)
        after == IndexRowsOf(conversations_by_user', row.user_id, row.conversation_id)
    IN  /\ \A old \in before \ after :
               old.last_message_timestamp <= row.last_message_timestamp
        /\ \A old \in before :
               old.last_message_timestamp > row.last_message_timestamp =>
                   /\ old \in after
                   /\ EntriesOf(conversations_by_user', row.user_id,
                                row.conversation_id)[1]
                        = EntriesOf(conversations_by_user, row.user_id,
                                    row.conversation_id)[1]

\* C5: an index write replaces an entry of its (user, conversation) only when
\* its timestamp is not older than the entry's; an index write of an earlier
\* message that lands after the index write of a later message of the same
\* conversation leaves the timestamp and preview shown for it unchanged.
C5_IndexNeverRegresses ==
    [][\A r \in Slots :
          Started(r) =>
              \A row \in {SenderIndexRow(requests[r]), RecipientIndexRow(requests[r])} :
                  IndexWriteStep(r, row) => NoRegression(row)]_vars

\* C5 witness: an index write of an earlier message has landed after the
\* index write of a later message of the same conversation.
C5_Witness == \E r \in Slots : Started(r) /\ requests[r].late

\* the call failed after its message row was written
PartialFailure(c) == c.pc = "raised" /\ c.writes >= 1

\* the call failed at the message write: nothing is stored
MessageWriteFailure(c) == c.pc = "raised" /\ c.writes = 0

\* C6: a send whose index write failed after the message row was written
\* does not report success, and what it reports differs from what a send
\* reports whose message write failed.
C6_PartialFailureDistinct ==
    \A r1 \in Slots :
        (Started(r1) /\ PartialFailure(requests[r1])) =>
            /\ ~Succeeded(requests[r1])
            /\ \A r2 \in Slots :
                   (/\ Started(r2)
                    /\ MessageWriteFailure(requests[r2])
                    /\ requests[r2].via = requests[r1].via)
                       => Outcome(requests[r1]) # Outcome(requests[r2])

\* C7: every stored message row has the conversation id derived from its own
\* sender and receiver.
C7_ConversationIdDerived ==
    \A row \in messages_by_conversation :
        row.conversation_id = DeriveConversationId(row.sender_id, row.recipient_id)

\* C8: a send_message request between distinct users that finished with no storage failure reports
\* success and returns the created message: the request's sender, receiver
\* and content, and the id, timestamp and conversation id of the stored row.
C8_SendReturnsCreatedMessage ==
    \A r \in Slots :
        (/\ Started(r)
         /\ requests[r].via = "controller"
         /\ ValidRequest(requests[r])
         /\ Finished(requests[r])
         /\ requests[r].error # "Unavailable") =>
            LET response == Outcome(requests[r])
                request == requests[r].kwargs
            IN  /\ response.status = 200
                /\ response.sender_id = request.sender_id
                /\ response.receiver_id = request.receiver_id
                /\ response.content = request.content
                /\ \E row \in messages_by_conversation :
                       /\ row.message_id = response.id
                       /\ row.message_timestamp = response.created_at
                       /\ row.conversation_id = response.conversation_id

\* C9: for distinct ids A and B, create_or_get_conversation computes for
\* (A, B) the conversation id it computes for (B, A).
C9_DeriveSymmetric ==
    (lastRead.op = "create_or_get_conversation" /\ lastRead.user1_id # lastRead.user2_id) =>
        lastRead.result.conversation_id =
            create_or_get_conversation_result(messages_by_conversation,
                lastRead.user2_id, lastRead.user1_id).conversation_id

\* C9 witness: the conversation of a pair given in descending string order
\* has been computed.
C9_Witness ==
    /\ lastRead.op = "create_or_get_conversation"
    /\ StrLess(Str(lastRead.user2_id), Str(lastRead.user1_id))

\* C10: a send whose sender is its receiver writes no row and fails with a
\* validation error.
C10_SelfSendRejected ==
    \A r \in Slots :
        (Started(r) /\ requests[r].kwargs.sender_id = ReceiverOf(requests[r].kwargs)) =>
            /\ requests[r].writes = 0
            /\ requests[r].pc # "returned"
            /\ requests[r].pc = "raised" => requests[r].error = "ValidationError"

\* the only call so far is a completed send between two distinct users
FirstSendCompleted(r) ==
    /\ requests[r].pc = "returned"
    /\ requests[r].sender_id # requests[r].recipient_id
    /\ \A q \in Slots \ {r} : ~Started(q)

\* C11: after a first completed send from A to B with content c in an empty
\* store, get_user_conversations(A) is one entry naming B with preview c,
\* get_user_conversations(B) is one entry naming A with preview c, and both
\* carry the conversation id and the timestamp of the message.
C11_FirstSendIndexed ==
    \A r \in Slots :
        FirstSendCompleted(r) =>
            LET c == requests[r]
                ofSender == get_user_conversations(conversations_by_user, c.sender_id,
                                                   DefaultLimit, NoneTime)
                ofRecipient == get_user_conversations(conversations_by_user,
                                                      c.recipient_id, DefaultLimit, NoneTime)
            IN  /\ Len(ofSender) = 1
                /\ ofSender[1].participant_id = c.recipient_id
                /\ ofSender[1].last_message_preview = c.kwargs.context
                /\ Len(ofRecipient) = 1
                /\ ofRecipient[1].participant_id = c.sender_id
                /\ ofRecipient[1].last_message_preview = c.kwargs.context
                /\ ofSender[1].conversation_id = ofRecipient[1].conversation_id
                /\ ofSender[1].conversation_id = c.kwargs.conversation_id
                /\ ofSender[1].last_message_timestamp = c.timestamp
                /\ ofRecipient[1].last_message_timestamp = c.timestamp
                /\ \E row \in messages_by_conversation :
                       /\ row.message_id = c.message_id
                       /\ row.message_timestamp = c.timestamp

\* C11 witness: a first send between two distinct users has completed.
C11_Witness == \E r \in Slots : FirstSendCompleted(r)

\* C12: get_messages_before_timestamp returns only messages of the
\* conversation with a timestamp strictly below before_timestamp; when the
\* bound is at or before the oldest message, or the conversation is empty,
\* the model returns an empty page and the controller answers 200 with no
\* data.
C12_StrictlyBefore ==
    \A conversation_id \in ConvIds, before_timestamp \in 1..FirstCursor,
       limit \in 1..MaxLimit, page \in PageNumbers :
        LET partition == MessagePartition(messages_by_conversation, conversation_id)
            rows == messages_before_timestamp(messages_by_conversation,
                        [conversation_id |-> conversation_id,
                         before_timestamp |-> before_timestamp,
                         page |-> page, limit |-> limit])
            response == MessageController_get_messages_before_timestamp(
                            messages_by_conversation, conversation_id,
                            before_timestamp, page, limit)
        IN  /\ \A i \in 1..Len(rows) :
                   /\ rows[i] \in partition
                   /\ rows[i].message_timestamp < before_timestamp
            /\ (\A row \in partition : before_timestamp <= row.message_timestamp) =>
                   /\ rows = <<>>
                   /\ response.status = 200
                   /\ response.data = <<>>

\* C12 witness: a conversation holds messages of two timestamps, so a bound
\* equal to a stored timestamp and a bound at the oldest both occur.
C12_Witness ==
    \E conversation_id \in ConvIds :
        \E a, b \in MessagePartition(messages_by_conversation, conversation_id) :
            a.message_timestamp < b.message_timestamp

\* the content a call was given, under either keyword
ContentOf(kwargs) ==
    IF "context" \in DOMAIN kwargs THEN kwargs.context ELSE kwargs.content

\* call r sends content from one user to the other, in their conversation,
\* and has ended without a store failure
Sent(r, from, to, content) ==
    /\ Started(r)
    /\ requests[r].kwargs.sender_id = from
    /\ ReceiverOf(requests[r].kwargs) = to
    /\ ContentOf(requests[r].kwargs) = content
    /\ ValidRequest(requests[r])
    /\ Finished(requests[r])
    /\ requests[r].error # "Unavailable"

\* the only calls so far: first sends "hello" to second, and after that call
\* ended second sends "hi" back
HelloThenHi(first, second) ==
    \E r1, r2 \in Slots :
        /\ Sent(r1, first, second, Hello)
        /\ Sent(r2, second, first, Hi)
        /\ r1 \in requests[r2].follows
        /\ \A q \in Slots \ {r1, r2} : ~Started(q)

\* C13: get_conversation_messages returns min(limit, stored) rows of the
\* conversation, the most recent ones, newest first; after "hello" from one
\* user followed by "hi" from the other it returns "hi", "hello".
C13_NewestFirstPage ==
    /\ \A conversation_id \in ConvIds, limit \in 1..MaxLimit :
           LET partition == MessagePartition(messages_by_conversation, conversation_id)
               rows == get_conversation_messages(messages_by_conversation,
                           [conversation_id |-> conversation_id, limit |-> limit])
               stored == Cardinality(partition)
           IN  /\ Len(rows) = IF stored < limit THEN stored ELSE limit
               /\ \A i \in 1..Len(rows) : rows[i] \in partition
               /\ \A i, j \in 1..Len(rows) :
                      i < j => rows[i].message_timestamp > rows[j].message_timestamp
               /\ \A row \in partition :
                      (\A i \in 1..Len(rows) : rows[i] # row) =>
                          \A i \in 1..Len(rows) :
                              row.message_timestamp < rows[i].message_timestamp
    /\ \A first, second \in Users :
           HelloThenHi(first, second) =>
               LET rows == get_conversation_messages(messages_by_conversation,
                               [conversation_id |-> DeriveConversationId(first, second)])
               IN  /\ Len(rows) = 2
                   /\ rows[1].context = Hi
                   /\ rows[2].context = Hello

\* the page contract of C13 alone, without the two-message scenario
C13_PageOfPartition ==
    \A conversation_id \in ConvIds, limit \in 1..MaxLimit :
        LET partition == MessagePartition(messages_by_conversation, conversation_id)
            rows == get_conversation_messages(messages_by_conversation,
                        [conversation_id |-> conversation_id, limit |-> limit])
        IN  /\ Len(rows) <= limit
            /\ \A i \in 1..Len(rows) : rows[i] \in partition
            /\ \A i, j \in 1..Len(rows) :
                   i < j => rows[i].message_timestamp > rows[j].message_timestamp

\* the scenario of C13 happened through the model, each call completing
C13_ScenarioThroughModel ==
    \E first, second \in Users :
        /\ HelloThenHi(first, second)
        /\ \A r \in Slots : Started(r) => requests[r].pc = "returned"

\* the scenario of C13 happened through the controller
C13_ScenarioThroughController ==
    \E first, second \in Users :
        /\ HelloThenHi(first, second)
        /\ \A r \in Slots : Started(r) => requests[r].via = "controller"

\* C14: for a conversation holding at least one message, get_conversation
\* returns exactly one summary, that of the most recent message of the
\* partition (its sender, receiver, timestamp and content).
C14_OneSummaryOfLatest ==
    \A conversation_id \in ConvIds :
        MessagePartition(messages_by_conversation, conversation_id) # {} =>
            LET result == get_conversation(messages_by_conversation,
                              [conversation_id |-> conversation_id])
                latest == LatestMessage(conversation_id)
            IN  /\ Len(result) = 1
                /\ result[1].sender_id = latest.sender_id
                /\ result[1].recipient_id = latest.recipient_id
                /\ result[1].message_timestamp = latest.message_timestamp
                /\ result[1].context = latest.context

\* C15: get_conversation for a conversation whose message partition is
\* empty ends in NotFound.
C15_EmptyIsNotFound ==
    \A conversation_id \in ConvIds :
        MessagePartition(messages_by_conversation, conversation_id) = {} =>
            get_conversation_call(messages_by_conversation,
                                  [conversation_id |-> conversation_id]).raised
                = "NotFound"

RECURSIVE ConversationPages(_, _, _, _)
\* the pages of get_user_conversations concatenated, each call bounded by
\* the timestamp of the oldest entry of the page before
ConversationPages(table, user_id, limit, before_timestamp) ==
    LET page == get_user_conversations(table, user_id, limit, before_timestamp)
    IN  IF page = <<>> THEN <<>>
        ELSE page \o ConversationPages(table, user_id, limit,
                                       page[Len(page)].last_message_timestamp)

\* the conversations with a stored message that user_id takes part in
ConversationsOf(user_id) ==
    {conversation_id \in StoredConversations : user_id \in Participants(conversation_id)}

\* the page contract of get_user_conversations: at most limit entries of the
\* user's partition, newest first, strictly below the bound when one is given
C16_PageOfIndex ==
    \A user_id \in Users, limit \in 1..MaxLimit,
       before_timestamp \in {NoneTime} \cup (1..FirstCursor) :
        LET page == get_user_conversations(conversations_by_user, user_id,
                                           limit, before_timestamp)
        IN  /\ Len(page) <= limit
            /\ \A i \in 1..Len(page) :
                   /\ page[i] \in IndexPartition(conversations_by_user, user_id)
                   /\ before_timestamp # NoneTime =>
                          page[i].last_message_timestamp < before_timestamp
            /\ \A i, j \in 1..Len(page) :
                   i < j => page[i].last_message_timestamp
                                > page[j].last_message_timestamp

\* C16: get_user_conversations returns at most limit entries of the user's
\* partition, newest first, strictly below before_timestamp when one is
\* given; and once the sends (all between distinct users, in their derived
\* conversation) have completed, paginating with the oldest timestamp of
\* each page as the next bound lists every conversation of the user exactly
\* once, for every page size.
C16_ConversationsListedOnce ==
    /\ C16_PageOfIndex
    /\ (AllCompleted /\ AllValid) =>
           \A user_id \in Users, limit \in 1..MaxLimit :
               LET all == ConversationPages(conversations_by_user, user_id,
                                            limit, NoneTime)
               IN  /\ {all[i].conversation_id : i \in 1..Len(all)}
                          = ConversationsOf(user_id)
                   /\ \A i, j \in 1..Len(all) :
                          i # j => all[i].conversation_id # all[j].conversation_id

\* C17: every index row written by a send has as last_message_preview the
\* prefix of the message content of length min(50, length of the content);
\* no stored preview is longer than 50 units.
C17_PreviewTruncated ==
    \A row \in conversations_by_user :
        /\ Len(row.last_message_preview) <= PreviewLength
        /\ \E r \in Slots :
               /\ Started(r)
               /\ requests[r].conversation_id = row.conversation_id
               /\ requests[r].timestamp = row.last_message_timestamp
               /\ row.user_id \in {requests[r].sender_id, requests[r].recipient_id}
               /\ row.last_message_preview = Truncate(requests[r].context)

\* what a paginated response says about the rows: its status and, when it
\* succeeded, the messages
RowsOf(response) ==
    IF response.status = 200 THEN <<200, response.total, response.data>>
    ELSE <<response.status>>

\* C18: for the same store state, conversation id, limit and before_timestamp,
\* get_conversation_messages and get_messages_before_timestamp return the
\* same rows for every page number as for page 1, at the model and through
\* the controller.
C18_PageHasNoOffset ==
    \A conversation_id \in ConvIds, limit \in 1..MaxLimit, page \in PageNumbers :
        /\ get_conversation_messages(messages_by_conversation,
               [conversation_id |-> conversation_id, page |-> page, limit |-> limit])
           = get_conversation_messages(messages_by_conversation,
               [conversation_id |-> conversation_id, page |-> 1, limit |-> limit])
        /\ RowsOf(MessageController_get_conversation_messages(
                      messages_by_conversation, conversation_id, page, limit))
           = RowsOf(MessageController_get_conversation_messages(
                        messages_by_conversation, conversation_id, 1, limit))
        /\ \A before_timestamp \in 1..FirstCursor :
              /\ messages_before_timestamp(messages_by_conversation,
                     [conversation_id |-> conversation_id, page |-> page,
                      limit |-> limit, before_timestamp |-> before_timestamp])
                 = messages_before_timestamp(messages_by_conversation,
                     [conversation_id |-> conversation_id, page |-> 1,
                      limit |-> limit, before_timestamp |-> before_timestamp])
              /\ RowsOf(MessageController_get_messages_before_timestamp(
                            messages_by_conversation, conversation_id,
                            before_timestamp, page, limit))
                 = RowsOf(MessageController_get_messages_before_timestamp(
                              messages_by_conversation, conversation_id,
                              before_timestamp, 1, limit))

\* C18 witness: a conversation holds more messages than the smallest page,
\* so a second page by offset would differ from the first.
C18_Witness ==
    \E conversation_id \in ConvIds :
        Cardinality(MessagePartition(messages_by_conversation, conversation_id)) > 1

\* C19: for every pair of distinct user ids of the test-data generator
\* (1..10), the conversation id create_or_get_conversation derives is the
\* one generate_conversations derives for the pair.
C19_GeneratorKeyAgrees ==
    (lastRead.op = "create_or_get_conversation" /\ lastRead.user1_id # lastRead.user2_id) =>
        lastRead.result.conversation_id =
            GeneratorConversationId(lastRead.user1_id, lastRead.user2_id)

\* calls r1 and r2 ran concurrently: neither had ended when the other began
Concurrent(r1, r2) ==
    /\ r1 # r2
    /\ Started(r1) /\ Started(r2)
    /\ r1 \notin requests[r2].follows
    /\ r2 \notin requests[r1].follows

\* C20: when two sends of the same conversation ran concurrently and all
\* sends (between distinct users, in their derived conversation) have
\* completed, the entries the two participants are shown for the
\* conversation carry the same timestamp and the same preview, also when
\* both sends read the same timestamp.
C20_ParticipantsAgree ==
    \A r1, r2 \in Slots :
        (/\ Concurrent(r1, r2)
         /\ requests[r1].conversation_id = requests[r2].conversation_id
         /\ AllCompleted /\ AllValid) =>
            LET conversation_id == requests[r1].conversation_id
                ofSender == EntriesOf(conversations_by_user,
                                      requests[r1].sender_id, conversation_id)
                ofRecipient == EntriesOf(conversations_by_user,
                                         requests[r1].recipient_id, conversation_id)
            IN  /\ ofSender # <<>> /\ ofRecipient # <<>>
                /\ ofSender[1].last_message_timestamp
                       = ofRecipient[1].last_message_timestamp
                /\ ofSender[1].last_message_preview
                       = ofRecipient[1].last_message_preview

\* the concurrent sends of C20 read different timestamps
C20_ParticipantsAgreeApart ==
    \A r1, r2 \in Slots :
        (/\ Concurrent(r1, r2)
         /\ requests[r1].conversation_id = requests[r2].conversation_id
         /\ requests[r1].timestamp # requests[r2].timestamp
         /\ AllCompleted /\ AllValid) =>
            LET conversation_id == requests[r1].conversation_id
                ofSender == EntriesOf(conversations_by_user,
                                      requests[r1].sender_id, conversation_id)
                ofRecipient == EntriesOf(conversations_by_user,
                                         requests[r1].recipient_id, conversation_id)
            IN  /\ ofSender # <<>> /\ ofRecipient # <<>>
                /\ ofSender[1].last_message_timestamp
                       = ofRecipient[1].last_message_timestamp
                /\ ofSender[1].last_message_preview
                       = ofRecipient[1].last_message_preview

\* the step is a write of call r: one of its three INSERTs succeeded
WriteStep(r) == Started(r) /\ requests'[r].writes > requests[r].writes

\* a write of call r removes or alters no message of another conversation
MessagesOfOthersKept(r) ==
    \A row \in messages_by_conversation :
        row.conversation_id # requests[r].conversation_id =>
            row \in messages_by_conversation'

\* a write of call r removes or alters no index entry of another
\* conversation, nor one of a user that is not a participant
EntriesOfOthersKept(r) ==
    \A row \in conversations_by_user :
        (\/ row.conversation_id # requests[r].conversation_id
         \/ row.user_id \notin {requests[r].sender_id, requests[r].recipient_id}) =>
            row \in conversations_by_user'

\* C21: a write of a send between A and B (all sends between distinct users,
\* in their derived conversation) changes only the message partition of the
\* (A, B) conversation and the index entries of A and of B for it: every
\* message of another conversation and every index entry of another
\* conversation, also one of A or B with the same timestamp, stays as it is.
C21_SendTouchesOwnConversationOnly ==
    [][\A r \in Slots :
          (WriteStep(r) /\ AllValid) =>
              MessagesOfOthersKept(r) /\ EntriesOfOthersKept(r)]_vars

\* the message half of C21: no write touches another conversation's messages
C21_MessagesFramed ==
    [][\A r \in Slots : (WriteStep(r) /\ AllValid) => MessagesOfOthersKept(r)]_vars

\* C22: in every reachable state, also in the middle of a send and after a
\* send failed at any of its writes, each row of conversations_by_user
\* refers to a conversation whose message partition holds a message with
\* that row's timestamp or a later one.
C22_IndexRowHasMessage ==
    \A row \in conversations_by_user :
        \E message \in MessagePartition(messages_by_conversation, row.conversation_id) :
            message.message_timestamp >= row.last_message_timestamp

\* C22 witness: a send failed at its third write, after its sender index
\* row was stored, while another send is in the middle of its writes.
C22_Witness ==
    \E r, q \in Slots :
        /\ requests[r].pc = "raised"
        /\ requests[r].writes = 2
        /\ SenderIndexRow(requests[r]) \in conversations_by_user
        /\ requests[q].pc = "sender_indexed"

\* the last call of create_or_get_conversation, if any, returned new = TRUE
\* and the partition of its conversation id is still empty
LookedUpAndStillEmpty ==
    /\ lastRead.op = "create_or_get_conversation"
    /\ lastRead.result.new
    /\ MessagePartition(messages_by_conversation, lastRead.result.conversation_id) = {}

\* a second call for the pair of the last one, in either order, returns
\* new = TRUE and the same conversation id while no message was stored
SecondLookupAlsoNew ==
    LookedUpAndStillEmpty =>
        \A p \in {<<lastRead.user1_id, lastRead.user2_id>>,
                  <<lastRead.user2_id, lastRead.user1_id>>} :
            create_or_get_conversation_result(messages_by_conversation, p[1], p[2])
                = [new |-> TRUE, conversation_id |-> lastRead.result.conversation_id]

\* a step that is a call of create_or_get_conversation stores nothing and
\* reports new exactly when the partition of the derived id is empty
LookupStep ==
    lastRead' # lastRead =>
        /\ UNCHANGED <<messages_by_conversation, conversations_by_user>>
        /\ lastRead'.result.conversation_id
               = DeriveConversationId(lastRead'.user1_id, lastRead'.user2_id)
        /\ lastRead'.result.new
               = (MessagePartition(messages_by_conversation,
                                   lastRead'.result.conversation_id) = {})

\* C23: create_or_get_conversation stores nothing and returns new = TRUE
\* exactly when the message partition of the derived conversation id is
\* empty at its read; a second call for the same pair with no message
\* stored in between returns new = TRUE again, with the same conversation id.
C23_LookupNeverCreates == []SecondLookupAlsoNew /\ [][LookupStep]_vars

\* C23 witness: a call made after a send to the pair's conversation found
\* its message and returned new = FALSE.
C23_Witness ==
    /\ lastRead.op = "create_or_get_conversation"
    /\ ~lastRead.result.new
    /\ \E r \in Slots : Appended(r) /\ requests[r].conversation_id = lastRead.result.conversation_id

\* the last call was given two distinct ids
DistinctPairLookedUp ==
    /\ lastRead.op = "create_or_get_conversation"
    /\ lastRead.user1_id # lastRead.user2_id

\* the string contains the separator "-"
HasDash(s) == \E i \in 1..Len(s) : s[i] = 45

\* C24: two different unordered pairs of distinct string ids never produce
\* the same key, hence never the same conversation id.
C24_KeyInjective ==
    DistinctPairLookedUp =>
        \A a \in StringIds, b \in StringIds :
            (a # b /\ {a, b} # {lastRead.user1_id, lastRead.user2_id}) =>
                Uuid5(ConversationKey(a, b)) # lastRead.result.conversation_id

\* C24 for ids without the separator: the key determines the pair
C24_KeyInjectiveWithoutDash ==
    (/\ DistinctPairLookedUp
     /\ ~HasDash(lastRead.user1_id) /\ ~HasDash(lastRead.user2_id)) =>
        \A a \in StringIds, b \in StringIds :
            (/\ a # b /\ ~HasDash(a) /\ ~HasDash(b)
             /\ {a, b} # {lastRead.user1_id, lastRead.user2_id}) =>
                Uuid5(ConversationKey(a, b)) # lastRead.result.conversation_id

====
